---- MODULE Spec2Model ----
(***************************************************************************)
(* OrderMatch matching engine (src/app/matcher.py, class MatchingEngine).  *)
(*                                                                         *)
(* The engine state is the five attributes set up by __init__.  Each call  *)
(* of process_order or cancel_order is one step: no await inside them      *)
(* reaches the event loop, every awaited coroutine being engine code with  *)
(* no I/O.                                                                 *)
(*                                                                         *)
(* Optional[T] values are sets with at most one element: None is {} and    *)
(* a value x is {x}.  Quantities and prices are integers (units of the     *)
(* smallest quantity and price step); average_price and change_24h are     *)
(* exact fractions <<numerator, denominator>>.  Timestamps other than      *)
(* created_at are left out: nothing in the engine reads them.              *)
(***************************************************************************)
EXTENDS Integers, Sequences, FiniteSets, TLC

\* ------------------------------------------------------------- bounds
MaxOrders == 3      \* process_order calls in a behaviour of Spec
MaxDeep == 4        \* process_order calls in a behaviour of SpecDeep
MaxQty == 2         \* largest order quantity
MaxPrice == 2       \* largest price

\* ------------------------------------------------------------- values
None == {}
Some(x) == {x}
Val(opt) == CHOOSE x \in opt : TRUE

\* Python truthiness of an Optional[float]: None and 0 are falsy.
Truthy(opt) == opt # None /\ Val(opt) # 0

Symbols == {"BTC/USDT", "ETH/USDT"}
Users == {"user123", "user456"}

BUY == "buy"
SELL == "sell"
LIMIT == "limit"
MARKET == "market"
STOP == "stop"
PENDING == "pending"
PARTIAL == "partial"
FILLED == "filled"
CANCELLED == "cancelled"
REJECTED == "rejected"

OrderSide == {BUY, SELL}
OrderType == {LIMIT, MARKET, STOP}
OrderStatus == {PENDING, PARTIAL, FILLED, CANCELLED, REJECTED}

\* A freshly constructed Order: the caller's fields and the defaults.
Order(id, now, req) ==
    [id |-> id, symbol |-> req.symbol, side |-> req.side,
     order_type |-> req.order_type, quantity |-> req.quantity,
     price |-> req.price, user_id |-> req.user_id,
     status |-> PENDING, filled_quantity |-> 0, average_price |-> None,
     created_at |-> now]

\* ------------------------------------------------------------- fractions
RECURSIVE Gcd(_, _)
Gcd(a, b) == IF b = 0 THEN a ELSE Gcd(b, a % b)

Abs(x) == IF x < 0 THEN -x ELSE x

\* n/d in lowest terms, d > 0.
Frac(n, d) ==
    LET g == Gcd(Abs(n), Abs(d))
        s == IF d < 0 THEN -1 ELSE 1
    IN  <<s * (n \div g), s * (d \div g)>>

\* ------------------------------------------------------------- state
VARIABLES
    order_books,       \* symbol -> [bids, asks]; a dict, absent until first accepted order
    active_orders,     \* order id -> Order; never shrinks
    orders_by_symbol,  \* symbol -> [buy_orders, sell_orders], lists of order ids
    trades,            \* the trade history
    market_data,       \* symbol -> MarketData; a dict, absent until first trade
    clock,             \* Order objects constructed so far (ids and created_at)
    ret,               \* the last call: its arguments and what it returned
    calls              \* task -> frame of its process_order call (concurrent callers only)

vars == <<order_books, active_orders, orders_by_symbol, trades, market_data, clock, ret,
          calls>>
engine == <<order_books, active_orders, orders_by_symbol, trades, market_data>>

Init ==
    /\ order_books = <<>>
    /\ active_orders = <<>>
    /\ orders_by_symbol = [s \in Symbols |-> [buy_orders |-> <<>>, sell_orders |-> <<>>]]
    /\ trades = <<>>
    /\ market_data = <<>>
    /\ clock = 0
    /\ ret = [op |-> "init"]
    /\ calls = <<>>

\* d[k] = v on a dict.
Put(d, k, v) == [x \in DOMAIN d \cup {k} |-> IF x = k THEN v ELSE d[x]]

\* A new OrderBook(symbol=...): no levels yet.
OrderBook == [bids |-> <<>>, asks |-> <<>>]

Range(s) == {s[k] : k \in 1..Len(s)}

RECURSIVE SumOver(_, _, _)
\* Sum of (quantity - filled_quantity) over the orders with ids in S.
SumOver(orders, S, acc) ==
    IF S = {} THEN acc
    ELSE LET i == CHOOSE x \in S : TRUE
         IN  SumOver(orders, S \ {i},
                     acc + (orders[i].quantity - orders[i].filled_quantity))

RECURSIVE Ascending(_)
\* sorted() of a set of numbers.
Ascending(S) ==
    IF S = {} THEN <<>>
    ELSE LET m == CHOOSE x \in S : \A y \in S : x <= y
         IN  <<m>> \o Ascending(S \ {m})

Reverse(s) == [k \in 1..Len(s) |-> s[Len(s) + 1 - k]]

\* ------------------------------------------------------------- validation
validate_order(order) ==
    IF order.quantity <= 0 THEN FALSE
    ELSE IF order.order_type = LIMIT /\ (~Truthy(order.price) \/ Val(order.price) <= 0)
         THEN FALSE
         ELSE TRUE

\* price_matches with a strict limit comparison.
price_matches_strict(buy_order, sell_order) ==
    IF buy_order.order_type = MARKET \/ sell_order.order_type = MARKET THEN TRUE
    ELSE IF Truthy(buy_order.price) /\ Truthy(sell_order.price)
         THEN Val(buy_order.price) > Val(sell_order.price)
         ELSE FALSE

\* price_matches with the limit comparison the wrong way round.
price_matches_reversed(buy_order, sell_order) ==
    IF buy_order.order_type = MARKET \/ sell_order.order_type = MARKET THEN TRUE
    ELSE IF Truthy(buy_order.price) /\ Truthy(sell_order.price)
         THEN Val(buy_order.price) <= Val(sell_order.price)
         ELSE FALSE

\* ------------------------------------------------------------- matching
price_matches(buy_order, sell_order) ==
    IF buy_order.order_type = MARKET \/ sell_order.order_type = MARKET THEN TRUE
    ELSE IF Truthy(buy_order.price) /\ Truthy(sell_order.price)
         THEN Val(buy_order.price) >= Val(sell_order.price)
         ELSE FALSE

\* TradeAccepts without the lower bound on the executed price.
TradeAccepts_any_price(quantity, price) ==
    quantity > 0 /\ price # None

\* The Trade model is not among the sources; by the data model a Trade has an
\* executed quantity > 0 and an executed price > 0, so constructing one with
\* no price (or a non-positive one) raises a validation error.
TradeAccepts(quantity, price) ==
    quantity > 0 /\ price # None /\ Val(price) > 0

Trade(buy_order, sell_order, quantity, price) ==
    [symbol |-> buy_order.symbol,
     buy_order_id |-> buy_order.id, sell_order_id |-> sell_order.id,
     buyer_id |-> buy_order.user_id, seller_id |-> sell_order.user_id,
     quantity |-> quantity, price |-> price]

\* status_after_fill with a strict comparison.
status_after_fill_strict(order, filled_quantity) ==
    IF filled_quantity > order.quantity THEN FILLED ELSE PARTIAL

\* The status an order takes after a fill.
status_after_fill(order, filled_quantity) ==
    IF filled_quantity >= order.quantity THEN FILLED ELSE PARTIAL

\* update_order_after_trade averaging the old average and the new price.
update_order_after_trade_unweighted(order, trade_quantity, trade_price) ==
    LET filled == order.filled_quantity + trade_quantity
        avg == IF order.average_price = None
               THEN Frac(trade_price, 1)
               ELSE LET old == Val(order.average_price)
                    IN  Frac(old[1] + trade_price * old[2], 2 * old[2])
    IN  [order EXCEPT !.filled_quantity = filled,
                      !.average_price = Some(avg),
                      !.status = status_after_fill(order, filled)]

\* update_order_after_trade with filled_quantity assigned instead of added to.
update_order_after_trade_assign(order, trade_quantity, trade_price) ==
    [order EXCEPT !.filled_quantity = trade_quantity,
                  !.average_price = Some(Frac(trade_price, 1)),
                  !.status = status_after_fill(order, trade_quantity)]


update_order_after_trade(order, trade_quantity, trade_price) ==
    LET filled == order.filled_quantity + trade_quantity
        avg == IF order.average_price = None
               THEN Frac(trade_price, 1)
               ELSE LET old == Val(order.average_price)
                        \* total_value = (filled - q) * avg + q * price, over old[2]
                        num == (filled - trade_quantity) * old[1]
                               + trade_quantity * trade_price * old[2]
                    IN  Frac(num, old[2] * filled)
    IN  [order EXCEPT !.filled_quantity = filled,
                      !.average_price = Some(avg),
                      !.status = status_after_fill(order, filled)]

\* trade_price_of with the creation-time comparison the wrong way round.
trade_price_of_later(buy_order, sell_order) ==
    IF buy_order.order_type = MARKET THEN sell_order.price
    ELSE IF sell_order.order_type = MARKET THEN buy_order.price
    ELSE IF buy_order.created_at > sell_order.created_at THEN buy_order.price
    ELSE sell_order.price

\* The price rule of _execute_trade; an Optional, as order prices are.
trade_price_of(buy_order, sell_order) ==
    IF buy_order.order_type = MARKET THEN sell_order.price
    ELSE IF sell_order.order_type = MARKET THEN buy_order.price
    ELSE IF buy_order.created_at < sell_order.created_at THEN buy_order.price
    ELSE sell_order.price

\* trade_quantity_of taking the larger remainder.
trade_quantity_of_max(buy_order, sell_order) ==
    LET buy_remaining == buy_order.quantity - buy_order.filled_quantity
        sell_remaining == sell_order.quantity - sell_order.filled_quantity
    IN  IF buy_remaining > sell_remaining THEN buy_remaining ELSE sell_remaining


trade_quantity_of(buy_order, sell_order) ==
    LET buy_remaining == buy_order.quantity - buy_order.filled_quantity
        sell_remaining == sell_order.quantity - sell_order.filled_quantity
    IN  IF buy_remaining < sell_remaining THEN buy_remaining ELSE sell_remaining

\* st = [orders, made, raised]: the Order objects, the trades made so far in
\* this call, and whether an exception is propagating.
execute_trade(st, b, s) ==
    LET buy_order == st.orders[b]
        sell_order == st.orders[s]
        trade_quantity == trade_quantity_of(buy_order, sell_order)
        trade_price == trade_price_of(buy_order, sell_order)
    IN  IF trade_quantity <= 0 THEN st
        ELSE IF ~TradeAccepts(trade_quantity, trade_price)
             THEN [st EXCEPT !.raised = TRUE]
             ELSE LET p == Val(trade_price)
                      trade == Trade(buy_order, sell_order, trade_quantity, p)
                  IN  [orders |-> [st.orders EXCEPT
                                     ![b] = update_order_after_trade(buy_order, trade_quantity, p),
                                     ![s] = update_order_after_trade(sell_order, trade_quantity, p)],
                       made |-> Append(st.made, trade),
                       raised |-> FALSE]

\* Which resting orders a match looks at.
is_candidate(order) == order.status = PENDING

\* key=lambda x: (x.price or float('inf'), x.created_at)
sell_key_less(x, y) ==
    LET xi == ~Truthy(x.price)
        yi == ~Truthy(y.price)
    IN  IF xi /\ yi THEN x.created_at < y.created_at
        ELSE IF xi THEN FALSE
        ELSE IF yi THEN TRUE
        ELSE \/ Val(x.price) < Val(y.price)
             \/ Val(x.price) = Val(y.price) /\ x.created_at < y.created_at

\* key=lambda x: (-(x.price or 0), x.created_at)
buy_key_less(x, y) ==
    LET xk == IF Truthy(x.price) THEN -Val(x.price) ELSE 0
        yk == IF Truthy(y.price) THEN -Val(y.price) ELSE 0
    IN  xk < yk \/ (xk = yk /\ x.created_at < y.created_at)

\* sorted_sell_orders over the sell orders of every symbol.
sorted_sell_orders_any_symbol(orders, lists) ==
    SortSeq(SelectSeq(Ascending(DOMAIN orders),
                      LAMBDA i : orders[i].side = SELL /\ is_candidate(orders[i])),
            LAMBDA i, j : sell_key_less(orders[i], orders[j]))

sorted_sell_orders(orders, lists) ==
    SortSeq(SelectSeq(lists.sell_orders, LAMBDA i : is_candidate(orders[i])),
            LAMBDA i, j : sell_key_less(orders[i], orders[j]))

sorted_buy_orders(orders, lists) ==
    SortSeq(SelectSeq(lists.buy_orders, LAMBDA i : is_candidate(orders[i])),
            LAMBDA i, j : buy_key_less(orders[i], orders[j]))

RECURSIVE buy_loop(_, _, _, _)
\* for sell_order in sell_orders: ... of _match_buy_order
buy_loop(st, b, sell_orders, k) ==
    IF k > Len(sell_orders) \/ st.raised THEN st
    ELSE IF st.orders[b].quantity - st.orders[b].filled_quantity <= 0 THEN st
    ELSE IF ~price_matches(st.orders[b], st.orders[sell_orders[k]])
         THEN buy_loop(st, b, sell_orders, k + 1)
         ELSE buy_loop(execute_trade(st, b, sell_orders[k]), b, sell_orders, k + 1)

RECURSIVE sell_loop(_, _, _, _)
\* for buy_order in buy_orders: ... of _match_sell_order
sell_loop(st, s, buy_orders, k) ==
    IF k > Len(buy_orders) \/ st.raised THEN st
    ELSE IF st.orders[s].quantity - st.orders[s].filled_quantity <= 0 THEN st
    ELSE IF ~price_matches(st.orders[buy_orders[k]], st.orders[s])
         THEN sell_loop(st, s, buy_orders, k + 1)
         ELSE sell_loop(execute_trade(st, buy_orders[k], s), s, buy_orders, k + 1)

match_buy_order(orders, lists, b) ==
    buy_loop([orders |-> orders, made |-> <<>>, raised |-> FALSE], b,
             sorted_sell_orders(orders, lists), 1)

match_sell_order(orders, lists, s) ==
    sell_loop([orders |-> orders, made |-> <<>>, raised |-> FALSE], s,
              sorted_buy_orders(orders, lists), 1)

match_order(orders, lists, id) ==
    IF orders[id].side = BUY
    THEN match_buy_order(orders, lists, id)
    ELSE match_sell_order(orders, lists, id)

\* ------------------------------------------------------------- order book
\* in_snapshot without the status check.
in_snapshot_any_status(order) == Truthy(order.price)

\* Which orders of a resting list a snapshot level counts.
in_snapshot(order) == order.status = PENDING /\ Truthy(order.price)

\* The defaultdict(float) of one side: price -> summed remaining quantity.
levels(orders, list) ==
    LET counted == {i \in Range(list) : in_snapshot(orders[i])}
        prices == {Val(orders[i].price) : i \in counted}
    IN  [p \in prices |->
            SumOver(orders, {i \in counted : Val(orders[i].price) = p}, 0)]

update_orderbook_snapshot(orders, lists) ==
    LET buy_levels == levels(orders, lists.buy_orders)
        sell_levels == levels(orders, lists.sell_orders)
        down == Reverse(Ascending(DOMAIN buy_levels))
        up == Ascending(DOMAIN sell_levels)
    IN  [bids |-> [k \in 1..Len(down) |->
                     [price |-> down[k], quantity |-> buy_levels[down[k]]]],
         asks |-> [k \in 1..Len(up) |->
                     [price |-> up[k], quantity |-> sell_levels[up[k]]]]]

\* symbol_orders[...].append(order)
add_to_orderbook(lists, order) ==
    IF order.side = BUY
    THEN [lists EXCEPT !.buy_orders = Append(@, order.id)]
    ELSE [lists EXCEPT !.sell_orders = Append(@, order.id)]

\* remove_from_orderbook filtering the list of the other side.
remove_from_orderbook_swapped(lists, order) ==
    IF order.side = BUY
    THEN [lists EXCEPT !.sell_orders = SelectSeq(@, LAMBDA i : i # order.id)]
    ELSE [lists EXCEPT !.buy_orders = SelectSeq(@, LAMBDA i : i # order.id)]


remove_from_orderbook(lists, order) ==
    IF order.side = BUY
    THEN [lists EXCEPT !.buy_orders = SelectSeq(@, LAMBDA i : i # order.id)]
    ELSE [lists EXCEPT !.sell_orders = SelectSeq(@, LAMBDA i : i # order.id)]

\* ------------------------------------------------------------- market data
update_market_data(md, books, symbol, trade) ==
    LET md0 == IF symbol \notin DOMAIN md
               THEN Put(md, symbol,
                        [last_price |-> trade.price, bid |-> 0, ask |-> 0,
                         volume_24h |-> 0, change_24h |-> Frac(0, 1)])
               ELSE md
        old_price == md0[symbol].last_price
        orderbook == books[symbol]
        m1 == [md0[symbol] EXCEPT !.last_price = trade.price]
        m2 == IF orderbook.bids # <<>>
              THEN [m1 EXCEPT !.bid = orderbook.bids[1].price] ELSE m1
        m3 == IF orderbook.asks # <<>>
              THEN [m2 EXCEPT !.ask = orderbook.asks[1].price] ELSE m2
        m4 == IF old_price > 0
              THEN [m3 EXCEPT !.change_24h =
                                  Frac((trade.price - old_price) * 100, old_price)]
              ELSE m3
    IN  Put(md0, symbol, m4)

\* rejected with the order stored and its book created before validation.
rejected_after_store(order) ==
    [order_books |-> IF order.symbol \notin DOMAIN order_books
                     THEN Put(order_books, order.symbol, OrderBook)
                     ELSE order_books,
     active_orders |-> Put(active_orders, order.id, [order EXCEPT !.status = REJECTED]),
     orders_by_symbol |-> orders_by_symbol, trades |-> trades,
     market_data |-> market_data,
     ret |-> [op |-> "process_order", result |-> "rejected",
              order |-> [order EXCEPT !.status = REJECTED], trades |-> <<>>,
              made |-> <<>>]]

\* ------------------------------------------------------------- process_order
\* The engine and the caller's view after a rejected submission.
rejected(order) ==
    [order_books |-> order_books, active_orders |-> active_orders,
     orders_by_symbol |-> orders_by_symbol, trades |-> trades,
     market_data |-> market_data,
     ret |-> [op |-> "process_order", result |-> "rejected",
              order |-> [order EXCEPT !.status = REJECTED], trades |-> <<>>,
              made |-> <<>>]]

\* Whether process_order puts the order in its resting list after matching.
rests(order) == order.status # FILLED

\* The engine and the caller's view after an accepted submission.
accepted(order) ==
    LET symbol == order.symbol
        books1 == IF symbol \notin DOMAIN order_books
                  THEN Put(order_books, symbol, OrderBook) ELSE order_books
        orders1 == Put(active_orders, order.id, order)
        st == match_order(orders1, orders_by_symbol[symbol], order.id)
        after == st.orders[order.id]
    IN  IF st.raised
        THEN \* the exception leaves _match_order and process_order: the
             \* caller receives no list, the trades made so far stay recorded
             [order_books |-> books1, active_orders |-> st.orders,
              orders_by_symbol |-> orders_by_symbol,
              trades |-> trades \o st.made, market_data |-> market_data,
              ret |-> [op |-> "process_order", result |-> "raised",
                       order |-> after, trades |-> <<>>, made |-> st.made]]
        ELSE LET lists2 == IF rests(after)
                           THEN add_to_orderbook(orders_by_symbol[symbol], after)
                           ELSE orders_by_symbol[symbol]
                 books2 == IF rests(after)
                           THEN Put(books1, symbol,
                                    update_orderbook_snapshot(st.orders, lists2))
                           ELSE books1
                 md2 == IF st.made # <<>>
                        THEN update_market_data(market_data, books2, symbol,
                                                st.made[Len(st.made)])
                        ELSE market_data
             IN  [order_books |-> books2, active_orders |-> st.orders,
                  orders_by_symbol |-> [orders_by_symbol EXCEPT ![symbol] = lists2],
                  trades |-> trades \o st.made, market_data |-> md2,
                  ret |-> [op |-> "process_order", result |-> "returned",
                           order |-> after, trades |-> st.made,
                           made |-> st.made]]

process_order_result(order) ==
    IF ~validate_order(order) THEN rejected(order) ELSE accepted(order)

Install(r) ==
    /\ order_books' = r.order_books
    /\ active_orders' = r.active_orders
    /\ orders_by_symbol' = r.orders_by_symbol
    /\ trades' = r.trades
    /\ market_data' = r.market_data
    /\ ret' = r.ret

\* The caller constructs the Order (fresh id, created_at = now) and submits it.
process_order(req) ==
    /\ clock' = clock + 1
    /\ calls' = calls
    /\ Install(process_order_result(Order(clock + 1, clock + 1, req)))

\* ------------------------------------------------------------- cancel_order
cancel_refused(order_id, user_id) ==
    [order_books |-> order_books, active_orders |-> active_orders,
     orders_by_symbol |-> orders_by_symbol, trades |-> trades,
     market_data |-> market_data,
     ret |-> [op |-> "cancel_order", order_id |-> order_id, user_id |-> user_id,
              result |-> FALSE]]

\* cancel_done that also takes the best bid and ask from the refreshed book.
cancel_done_with_quotes(order_id, user_id) ==
    LET order == [active_orders[order_id] EXCEPT !.status = CANCELLED]
        orders1 == [active_orders EXCEPT ![order_id] = order]
        lists1 == remove_from_orderbook(orders_by_symbol[order.symbol], order)
        book == update_orderbook_snapshot(orders1, lists1)
        quote(m) == [m EXCEPT !.bid = IF book.bids # <<>> THEN book.bids[1].price ELSE @,
                              !.ask = IF book.asks # <<>> THEN book.asks[1].price ELSE @]
    IN  [order_books |-> [order_books EXCEPT ![order.symbol] = book],
         active_orders |-> orders1,
         orders_by_symbol |-> [orders_by_symbol EXCEPT ![order.symbol] = lists1],
         trades |-> trades,
         market_data |-> [symbol \in DOMAIN market_data |->
                             IF symbol = order.symbol THEN quote(market_data[symbol])
                             ELSE market_data[symbol]],
         ret |-> [op |-> "cancel_order", order_id |-> order_id, user_id |-> user_id,
                  result |-> TRUE]]

cancel_done(order_id, user_id) ==
    LET order == [active_orders[order_id] EXCEPT !.status = CANCELLED]
        orders1 == [active_orders EXCEPT ![order_id] = order]
        lists1 == remove_from_orderbook(orders_by_symbol[order.symbol], order)
    IN  [order_books |-> [order_books EXCEPT ![order.symbol] =
                             update_orderbook_snapshot(orders1, lists1)],
         active_orders |-> orders1,
         orders_by_symbol |-> [orders_by_symbol EXCEPT ![order.symbol] = lists1],
         trades |-> trades, market_data |-> market_data,
         ret |-> [op |-> "cancel_order", order_id |-> order_id, user_id |-> user_id,
                  result |-> TRUE]]

\* cancel_allowed without the ownership check.
cancel_allowed_any_user(order_id, user_id) ==
    /\ order_id \in DOMAIN active_orders
    /\ active_orders[order_id].status \in {PENDING, PARTIAL}

\* cancel_allowed without the status check.
cancel_allowed_any_status(order_id, user_id) ==
    /\ order_id \in DOMAIN active_orders
    /\ active_orders[order_id].user_id = user_id

\* The three checks of cancel_order that return False.
cancel_allowed(order_id, user_id) ==
    /\ order_id \in DOMAIN active_orders
    /\ active_orders[order_id].user_id = user_id
    /\ active_orders[order_id].status \in {PENDING, PARTIAL}

cancel_order_result(order_id, user_id) ==
    IF cancel_allowed(order_id, user_id)
    THEN cancel_done(order_id, user_id)
    ELSE cancel_refused(order_id, user_id)

cancel_order(order_id, user_id) ==
    /\ clock' = clock
    /\ calls' = calls
    /\ Install(cancel_order_result(order_id, user_id))

\* ------------------------------------------------------------- inputs
Request(users, sides, types, quantities, prices) ==
    [symbol : {"BTC/USDT"}, user_id : users, side : sides, order_type : types,
     quantity : quantities, price : prices]

\* Submissions as the data model describes them: priced limit orders and
\* unpriced market orders.
WellFormed(users) ==
    Request(users, OrderSide, {LIMIT}, 1..MaxQty, {Some(p) : p \in 1..MaxPrice})
    \cup Request(users, OrderSide, {MARKET}, 1..MaxQty, {None})

\* Stop orders, with and without a price.
StopOrders ==
    Request({"user123"}, OrderSide, {STOP}, {1}, {None, Some(0), Some(1)})

\* Submissions validation is there for.
Malformed ==
    Request({"user123"}, {BUY}, {LIMIT}, {1}, {None, Some(0), Some(-1)})
    \cup Request({"user123"}, {SELL}, {LIMIT, MARKET, STOP}, {0, -1}, {Some(1)})

Requests == WellFormed({"user123"}) \cup StopOrders \cup Malformed

DeepRequests == WellFormed({"user123"})

NextOf(requests, max, cancellers) ==
    \/ \E req \in requests : clock < max /\ process_order(req)
    \/ \E order_id \in 1..max, user_id \in cancellers : cancel_order(order_id, user_id)

Next == NextOf(Requests, MaxOrders, Users)

Spec == Init /\ [][Next]_vars

\* Longer runs of well-formed submissions, cancelled by their owner only.
NextDeep == NextOf(DeepRequests, MaxDeep, {"user123"})

SpecDeep == Init /\ [][NextDeep]_vars

\* Well-formed submissions with one more unit of quantity, so that an order
\* can be filled in unequal parts.
WeightedRequests ==
    Request({"user123"}, OrderSide, {LIMIT}, 1..(MaxQty + 1),
            {Some(p) : p \in 1..MaxPrice})
    \cup Request({"user123"}, OrderSide, {MARKET}, 1..(MaxQty + 1), {None})

NextWeighted == NextOf(WeightedRequests, MaxOrders, {"user123"})

SpecWeighted == Init /\ [][NextWeighted]_vars

\* The same submissions on either symbol.
OnSymbol(symbol, req) == [req EXCEPT !.symbol = symbol]

SymbolRequests == {OnSymbol(symbol, req) : symbol \in Symbols, req \in DeepRequests}

NextSymbols == NextOf(SymbolRequests, MaxOrders, {"user123"})

SpecSymbols == Init /\ [][NextSymbols]_vars

\* ------------------------------------------------------------- concurrent callers
\* The request handlers run as tasks of one event loop.
Tasks == {"task1", "task2"}

\* The places where process_order and what it calls await:
\*   "match_order"         process_order: await self._match_order(order)
\*   "execute_trade"       the matching loops: await self._execute_trade(...)
\*   "update_buy"          _execute_trade: await self._update_order_after_trade(buy_order, ...)
\*   "update_sell"         _execute_trade: await self._update_order_after_trade(sell_order, ...)
\*   "update_market_data"  process_order: await self._update_market_data(...)
\* suspends, were _update_order_after_trade to wait for something.
suspends_in_update_order(site) == site \in {"update_buy", "update_sell"}

\* Whether the coroutine awaited at `site` gives control back to the event
\* loop before it runs. Every awaited coroutine is a method of the engine
\* whose body awaits nothing but other such methods: no future, sleep or I/O.
suspends(site) == FALSE

\* The engine's fields as one value.
Engine ==
    [order_books |-> order_books, active_orders |-> active_orders,
     orders_by_symbol |-> orders_by_symbol, trades |-> trades,
     market_data |-> market_data]

\* The frame of a process_order call: where it stands and its local variables.
Frame(order) ==
    [order |-> order, pc |-> "start", side_orders |-> <<>>, k |-> 0,
     made |-> <<>>, trade |-> None, result |-> "running"]

\* process_order from the end of matching up to its last await.
finish(eng, f) ==
    LET order == eng.active_orders[f.order.id]
        symbol == order.symbol
        lists2 == IF rests(order)
                  THEN add_to_orderbook(eng.orders_by_symbol[symbol], order)
                  ELSE eng.orders_by_symbol[symbol]
        books2 == IF rests(order)
                  THEN Put(eng.order_books, symbol,
                           update_orderbook_snapshot(eng.active_orders, lists2))
                  ELSE eng.order_books
    IN  [eng |-> [eng EXCEPT !.order_books = books2,
                             !.orders_by_symbol = [@ EXCEPT ![symbol] = lists2]],
         f |-> IF f.made # <<>>
               THEN [f EXCEPT !.pc = "update_market_data"]
               ELSE [f EXCEPT !.pc = "done", !.result = "returned"]]

RECURSIVE advance(_, _)
\* The matching loop from the head of an iteration up to its next await.
advance(eng, f) ==
    LET incoming == eng.active_orders[f.order.id]
    IN  IF f.k > Len(f.side_orders) THEN finish(eng, f)
        ELSE IF incoming.quantity - incoming.filled_quantity <= 0 THEN finish(eng, f)
        ELSE LET resting == eng.active_orders[f.side_orders[f.k]]
                 matches == IF incoming.side = BUY
                            THEN price_matches(incoming, resting)
                            ELSE price_matches(resting, incoming)
             IN  IF ~matches THEN advance(eng, [f EXCEPT !.k = @ + 1])
                 ELSE [eng |-> eng, f |-> [f EXCEPT !.pc = "execute_trade"]]

\* The code between two awaits, from where the frame stands.
step(eng, f) ==
    LET id == f.order.id
        symbol == f.order.symbol
    IN  CASE f.pc = "start" ->
               IF ~validate_order(f.order)
               THEN [eng |-> eng, f |-> [f EXCEPT !.pc = "done", !.result = "rejected"]]
               ELSE [eng |-> [eng EXCEPT
                                !.order_books = IF symbol \notin DOMAIN @
                                                THEN Put(@, symbol, OrderBook) ELSE @,
                                !.active_orders = Put(@, id, f.order)],
                     f |-> [f EXCEPT !.pc = "match_order"]]
          [] f.pc = "match_order" ->
               advance(eng, [f EXCEPT
                   !.side_orders = IF f.order.side = BUY
                                   THEN sorted_sell_orders(eng.active_orders,
                                                           eng.orders_by_symbol[symbol])
                                   ELSE sorted_buy_orders(eng.active_orders,
                                                          eng.orders_by_symbol[symbol]),
                   !.k = 1])
          [] f.pc = "execute_trade" ->
               LET incoming == eng.active_orders[id]
                   resting == eng.active_orders[f.side_orders[f.k]]
                   buy_order == IF incoming.side = BUY THEN incoming ELSE resting
                   sell_order == IF incoming.side = BUY THEN resting ELSE incoming
                   trade_quantity == trade_quantity_of(buy_order, sell_order)
                   trade_price == trade_price_of(buy_order, sell_order)
               IN  IF trade_quantity <= 0 THEN advance(eng, [f EXCEPT !.k = @ + 1])
                   ELSE IF ~TradeAccepts(trade_quantity, trade_price)
                        THEN [eng |-> eng,
                              f |-> [f EXCEPT !.pc = "done", !.result = "raised"]]
                        ELSE [eng |-> eng,
                              f |-> [f EXCEPT !.pc = "update_buy",
                                              !.trade = Some(Trade(buy_order, sell_order,
                                                  trade_quantity, Val(trade_price)))]]
          [] f.pc = "update_buy" ->
               LET trade == Val(f.trade)
               IN  [eng |-> [eng EXCEPT !.active_orders[trade.buy_order_id] =
                                update_order_after_trade(@, trade.quantity, trade.price)],
                    f |-> [f EXCEPT !.pc = "update_sell"]]
          [] f.pc = "update_sell" ->
               LET trade == Val(f.trade)
               IN  advance([eng EXCEPT !.active_orders[trade.sell_order_id] =
                                update_order_after_trade(@, trade.quantity, trade.price),
                                       !.trades = Append(@, trade)],
                           [f EXCEPT !.made = Append(@, trade), !.trade = None,
                                     !.k = @ + 1])
          [] f.pc = "update_market_data" ->
               [eng |-> [eng EXCEPT !.market_data =
                            update_market_data(@, eng.order_books, symbol,
                                               f.made[Len(f.made)])],
                f |-> [f EXCEPT !.pc = "done", !.result = "returned"]]

RECURSIVE run(_, _)
\* The task runs until its call ends or an awaited coroutine suspends.
run(eng, f) ==
    LET s == step(eng, f)
    IN  IF s.f.pc = "done" \/ suspends(s.f.pc) THEN s ELSE run(s.eng, s.f)

\* What the caller of a finished call has in hand.
call_return(eng, f) ==
    [op |-> "process_order", result |-> f.result,
     order |-> IF f.result = "rejected" THEN [f.order EXCEPT !.status = REJECTED]
               ELSE eng.active_orders[f.order.id],
     trades |-> IF f.result = "returned" THEN f.made ELSE <<>>,
     made |-> f.made]

InFlight(task) == task \in DOMAIN calls /\ calls[task].pc # "done"

\* The event loop runs a task: its suspended call goes on, or the task
\* constructs an Order and calls process_order.
run_task(task, req, max) ==
    /\ InFlight(task) \/ clock < max
    /\ \E s \in {run(Engine, IF InFlight(task) THEN calls[task]
                               ELSE Frame(Order(clock + 1, clock + 1, req)))} :
          /\ clock' = IF InFlight(task) THEN clock ELSE clock + 1
          /\ order_books' = s.eng.order_books
          /\ active_orders' = s.eng.active_orders
          /\ orders_by_symbol' = s.eng.orders_by_symbol
          /\ trades' = s.eng.trades
          /\ market_data' = s.eng.market_data
          /\ calls' = Put(calls, task, s.f)
          /\ ret' = IF s.f.pc = "done" THEN call_return(s.eng, s.f) ELSE ret

\* What the tasks submit: limit orders, and market orders of one unit.
TaskRequests ==
    Request({"user123"}, OrderSide, {LIMIT}, 1..MaxQty, {Some(p) : p \in 1..MaxPrice})
    \cup Request({"user123"}, OrderSide, {MARKET}, {1}, {None})

NextTasks ==
    \/ \E task \in Tasks, req \in TaskRequests : run_task(task, req, MaxOrders)
    \/ \E order_id \in 1..MaxOrders : cancel_order(order_id, "user123")

SpecTasks == Init /\ [][NextTasks]_vars

\* ------------------------------------------------------------- vocabulary of the properties
Remaining(order) == order.quantity - order.filled_quantity

Live(order) == order.status \in {PENDING, PARTIAL}

RestingList(symbol, side) ==
    IF side = BUY THEN orders_by_symbol[symbol].buy_orders
    ELSE orders_by_symbol[symbol].sell_orders

BookSide(symbol, side) ==
    IF side = BUY THEN order_books[symbol].bids ELSE order_books[symbol].asks

\* The quantity a snapshot side shows at price p (0 when it has no such level).
RECURSIVE LevelQty(_, _)
LevelQty(side_levels, p) ==
    IF side_levels = <<>> THEN 0
    ELSE (IF Head(side_levels).price = p THEN Head(side_levels).quantity ELSE 0)
         + LevelQty(Tail(side_levels), p)

\* The remaining quantity of the Pending or Partial resting orders at price p.
Backed(symbol, side, p) ==
    SumOver(active_orders,
            {i \in Range(RestingList(symbol, side)) :
                Live(active_orders[i]) /\ active_orders[i].price = Some(p)}, 0)

LevelPrices(side_levels) == {side_levels[k].price : k \in 1..Len(side_levels)}

\* The quantity of the trades of the history that name order i.
RECURSIVE TradedQty(_, _)
TradedQty(history, i) ==
    IF history = <<>> THEN 0
    ELSE (IF i \in {Head(history).buy_order_id, Head(history).sell_order_id}
          THEN Head(history).quantity ELSE 0)
         + TradedQty(Tail(history), i)

IsProcess(r) == r.op = "process_order"
IsCancel(r) == r.op = "cancel_order"

TradeLegs(t) == {t.buy_order_id, t.sell_order_id}

OtherLeg(t, i) == IF t.buy_order_id = i THEN t.sell_order_id ELSE t.buy_order_id

Opposite(side) == IF side = BUY THEN SELL ELSE BUY

\* Price compatibility as the matching algorithm is specified: either leg a
\* market order, or both limit orders with buy limit >= sell limit.
PriceCompatible(buy_order, sell_order) ==
    \/ buy_order.order_type = MARKET
    \/ sell_order.order_type = MARKET
    \/ /\ buy_order.order_type = LIMIT /\ sell_order.order_type = LIMIT
       /\ Val(buy_order.price) >= Val(sell_order.price)

CompatibleWith(incoming, resting) ==
    IF incoming.side = BUY THEN PriceCompatible(incoming, resting)
    ELSE PriceCompatible(resting, incoming)

\* r1 goes before r2 in price-time priority among resting orders of `side`.
Precedes(side, r1, r2) ==
    /\ r1.price # None /\ r2.price # None
    /\ \/ (side = SELL /\ Val(r1.price) < Val(r2.price))
       \/ (side = BUY /\ Val(r1.price) > Val(r2.price))
       \/ (Val(r1.price) = Val(r2.price) /\ r1.created_at < r2.created_at)

\* ------------------------------------------------------------- C1
\* C1: for every symbol with a book and each side, the snapshot shows at every
\* price exactly the summed remaining quantity of the Pending or Partial
\* resting orders at that price.
BookEqualsRestingAggregate ==
    \A symbol \in DOMAIN order_books : \A side \in OrderSide :
        \A p \in (1..MaxPrice) \cup LevelPrices(BookSide(symbol, side)) :
            LevelQty(BookSide(symbol, side), p) = Backed(symbol, side, p)

\* ------------------------------------------------------------- C2
PriorityStep ==
    IsProcess(ret') =>
        \A k \in 1..Len(ret'.made) :
            LET incoming == ret'.order
                side == Opposite(incoming.side)
                r2 == OtherLeg(ret'.made[k], incoming.id)
            IN  \A r1 \in Range(RestingList(incoming.symbol, side)) \ {r2} :
                    ( /\ Live(active_orders[r1])
                      /\ Remaining(active_orders[r1]) > 0
                      /\ CompatibleWith(incoming, active_orders[r1])
                      /\ Precedes(side, active_orders[r1], active_orders[r2]) )
                    => /\ \E j \in 1..(k - 1) :
                              OtherLeg(ret'.made[j], incoming.id) = r1
                       /\ Remaining(active_orders'[r1]) = 0

\* C2: within one process_order call, a trade against resting order r2 comes
\* only after every price-compatible live resting order r1 of that side that
\* precedes r2 in price-time priority was traded in the same call and left
\* with no remaining quantity.
PriceTimePriority == [][PriorityStep]_vars

\* ------------------------------------------------------------- C3
\* C3: no trade of the history is between a limit buy and a limit sell whose
\* buy limit price is strictly less than the sell limit price.
NoTradeBelowSellLimit ==
    \A k \in 1..Len(trades) :
        LET b == active_orders[trades[k].buy_order_id]
            s == active_orders[trades[k].sell_order_id]
        IN  (b.order_type = LIMIT /\ s.order_type = LIMIT)
            => ~(Val(b.price) < Val(s.price))

\* A trade between two limit orders whose prices differ.
LimitTradeAcrossPrices ==
    \E k \in 1..Len(trades) :
        LET b == active_orders[trades[k].buy_order_id]
            s == active_orders[trades[k].sell_order_id]
        IN  /\ b.order_type = LIMIT /\ s.order_type = LIMIT
            /\ Val(b.price) > Val(s.price)

\* ------------------------------------------------------------- C4
\* C4: every order known to the engine has 0 <= filled_quantity <= quantity.
FilledWithinQuantity ==
    \A i \in DOMAIN active_orders :
        /\ 0 <= active_orders[i].filled_quantity
        /\ active_orders[i].filled_quantity <= active_orders[i].quantity

\* An order filled to its quantity by two trades while another stays Partial.
FilledInTwoTrades ==
    \E i, j \in DOMAIN active_orders :
        /\ active_orders[i].filled_quantity = active_orders[i].quantity
        /\ Cardinality({k \in 1..Len(trades) : i \in TradeLegs(trades[k])}) = 2
        /\ active_orders[j].status = PARTIAL

\* ------------------------------------------------------------- C5
\* C5: each order's filled_quantity equals the summed quantity of the trades
\* of the history that reference it.
FilledEqualsTraded ==
    \A i \in DOMAIN active_orders :
        active_orders[i].filled_quantity = TradedQty(trades, i)

\* An incoming order that traded twice in one call, against different orders.
TwoTradesOneCall ==
    /\ IsProcess(ret) /\ Len(ret.trades) = 2
    /\ ret.order.filled_quantity = 2
    /\ TradedQty(trades, ret.order.id) = 2

\* ------------------------------------------------------------- C6
\* C6: process_order rejects (status Rejected, empty trade list) every order
\* whose quantity is <= 0 and every limit or stop order whose price is absent
\* or <= 0.
InvalidOrdersRejected ==
    IsProcess(ret) =>
        LET o == ret.order
        IN  ( \/ o.quantity <= 0
              \/ /\ o.order_type \in {LIMIT, STOP}
                 /\ (o.price = None \/ Val(o.price) <= 0) )
            => /\ o.status = REJECTED
               /\ ret.result = "rejected"
               /\ ret.trades = <<>>

\* ------------------------------------------------------------- C7
RejectionStep ==
    (IsProcess(ret') /\ ret'.order.status = REJECTED)
    => /\ UNCHANGED engine
       /\ ret'.result = "rejected"
       /\ ret'.trades = <<>>

\* C7: a process_order call that rejects its order leaves the resting lists,
\* the book snapshots, the stored orders, the trade history and the market
\* data as they were, and returns an empty list.
RejectionChangesNothing == [][RejectionStep]_vars

\* A rejection by an engine that already holds a trade and market data.
RejectedAfterTrade ==
    /\ IsProcess(ret) /\ ret.order.status = REJECTED
    /\ trades # <<>> /\ market_data # <<>>

\* ------------------------------------------------------------- C8
CancelMustFail(order_id, user_id) ==
    \/ order_id \notin DOMAIN active_orders
    \/ active_orders[order_id].user_id # user_id
    \/ ~Live(active_orders[order_id])

RefusedCancelStep ==
    (IsCancel(ret') /\ CancelMustFail(ret'.order_id, ret'.user_id))
    => /\ ret'.result = FALSE
       /\ UNCHANGED engine

\* C8: cancel_order returns false and changes nothing when the order id is
\* unknown, the requesting user is not the owner, or the order is not Pending
\* or Partial.
RefusedCancelChangesNothing == [][RefusedCancelStep]_vars

\* A non-owner's cancel of a live order, refused.
NonOwnerCancelRefused ==
    /\ IsCancel(ret) /\ ret.result = FALSE
    /\ ret.order_id \in DOMAIN active_orders
    /\ Live(active_orders[ret.order_id])
    /\ active_orders[ret.order_id].user_id # ret.user_id

\* ------------------------------------------------------------- C9
\* Order i is in a resting list of `lists` (a value of orders_by_symbol).
InRestingLists(lists, i) ==
    \E symbol \in Symbols :
        i \in Range(lists[symbol].buy_orders) \cup Range(lists[symbol].sell_orders)

\* The book of order i's symbol shows at its price no more than the live
\* resting orders back.
NotCountedInBook(i) ==
    LET order == active_orders[i]
    IN  order.price # None =>
            LevelQty(BookSide(order.symbol, order.side), Val(order.price))
                <= Backed(order.symbol, order.side, Val(order.price))

OwnerCancelStep ==
    \A i \in DOMAIN active_orders :
        (IsCancel(ret') /\ ret'.order_id = i /\ ~CancelMustFail(i, ret'.user_id))
        => /\ ret'.result = TRUE
           /\ active_orders'[i].status = CANCELLED
           /\ ~InRestingLists(orders_by_symbol', i)
           /\ NotCountedInBook(i)'

NoTradeOnCancelled ==
    \A i \in DOMAIN active_orders :
        active_orders[i].status = CANCELLED =>
            \A k \in (Len(trades) + 1)..Len(trades') : i \notin TradeLegs(trades'[k])

\* C9: an owner's cancel of a Pending or Partial order returns true, makes the
\* order Cancelled, takes it out of the resting list and out of the refreshed
\* book, and no later trade names it.
CancelRemovesOrder == [][OwnerCancelStep /\ NoTradeOnCancelled]_vars

\* A trade made while a cancelled order of the other side, price-compatible
\* with the incoming order, is known to the engine.
TradePastCancelled ==
    /\ IsProcess(ret) /\ ret.trades # <<>>
    /\ \E i \in DOMAIN active_orders :
          /\ active_orders[i].status = CANCELLED
          /\ active_orders[i].side # ret.order.side
          /\ CompatibleWith(ret.order, active_orders[i])

\* ------------------------------------------------------------- C10
PriceRule(t, b, s) ==
    /\ (b.order_type = MARKET /\ s.order_type # MARKET) => s.price = Some(t.price)
    /\ (s.order_type = MARKET /\ b.order_type # MARKET) => b.price = Some(t.price)
    /\ (b.order_type = LIMIT /\ s.order_type = LIMIT) =>
          /\ b.created_at # s.created_at
          /\ t.price = Val((IF b.created_at < s.created_at THEN b ELSE s).price)

PriceRuleHistory ==
    \A k \in 1..Len(trades) :
        PriceRule(trades[k], active_orders[trades[k].buy_order_id],
                  active_orders[trades[k].sell_order_id])

RestingPriceStep ==
    IsProcess(ret') =>
        \A k \in 1..Len(ret'.made) :
            LET t == ret'.made[k]
                resting == active_orders'[OtherLeg(t, ret'.order.id)]
            IN  (ret'.order.order_type = LIMIT /\ resting.order_type = LIMIT)
                => t.price = Val(resting.price)

\* C10: a trade with exactly one market leg has the other leg's limit price;
\* a trade between two limit orders has the price of the order created
\* earlier, which for a trade made by process_order is the resting order's.
TradePriceRule == [][PriceRuleHistory' /\ RestingPriceStep]_vars

\* An incoming limit order traded at a price that is not its own.
IncomingTakesRestingPrice ==
    /\ IsProcess(ret) /\ ret.order.order_type = LIMIT
    /\ \E k \in 1..Len(ret.trades) :
          /\ ret.trades[k].price # Val(ret.order.price)
          /\ active_orders[OtherLeg(ret.trades[k], ret.order.id)].order_type = LIMIT

StatusMatchesFill ==
    \A i \in DOMAIN active_orders :
        LET order == active_orders[i]
        IN  /\ (order.status = FILLED) <=> (order.filled_quantity = order.quantity)
            /\ (order.filled_quantity > 0 /\ order.filled_quantity < order.quantity)
                   => order.status \in {PARTIAL, CANCELLED}

\* A filled order, a partially filled one and one cancelled after a fill.
FilledPartialAndCancelled ==
    /\ \E i \in DOMAIN active_orders : active_orders[i].status = FILLED
    /\ \E i \in DOMAIN active_orders :
          /\ active_orders[i].status = CANCELLED
          /\ active_orders[i].filled_quantity > 0
    /\ \E i \in DOMAIN active_orders :
          /\ active_orders[i].status = PARTIAL
          /\ active_orders[i].filled_quantity < active_orders[i].quantity

\* ------------------------------------------------------------- C13
Terminal(order) == order.status \in {FILLED, CANCELLED, REJECTED}

StatusStep ==
    \A i \in DOMAIN active_orders :
        /\ i \in DOMAIN active_orders'
        /\ active_orders'[i].filled_quantity >= active_orders[i].filled_quantity
        /\ active_orders'[i].status # REJECTED
        /\ Terminal(active_orders[i]) =>
               /\ active_orders'[i].status = active_orders[i].status
               /\ active_orders'[i].filled_quantity = active_orders[i].filled_quantity
        /\ active_orders[i].status = PARTIAL => active_orders'[i].status # PENDING

\* C13: a Filled, Cancelled or Rejected order keeps its status and its
\* filled_quantity under every later call, filled_quantity never decreases,
\* and an order the engine accepted never becomes Rejected.
StatusOnlyMovesForward == [][StatusStep]_vars

\* The owner's cancel of a filled order, refused, while another order is
\* already cancelled.
CancelOfFilledRefused ==
    /\ IsCancel(ret) /\ ret.result = FALSE
    /\ ret.order_id \in DOMAIN active_orders
    /\ active_orders[ret.order_id].status = FILLED
    /\ active_orders[ret.order_id].user_id = ret.user_id
    /\ \E j \in DOMAIN active_orders : active_orders[j].status = CANCELLED

\* ------------------------------------------------------------- C14
HistoryStep ==
    trades' = trades \o (IF IsProcess(ret') THEN ret'.trades ELSE <<>>)

\* C14: the trade history only grows, in production order: a process_order
\* call appends exactly the trades it returns, in the order returned, after
\* all earlier entries; cancel_order and a rejected submission append
\* nothing; no entry is removed, reordered or modified.
HistoryAppendsReturnedTrades == [][HistoryStep]_vars

\* ------------------------------------------------------------- C15
\* The symbol a call works on (none for a cancel of an unknown order).
CallSymbol(r, orders) ==
    IF IsProcess(r) THEN {r.order.symbol}
    ELSE IF IsCancel(r) /\ r.order_id \in DOMAIN orders
         THEN {orders[r.order_id].symbol}
         ELSE {}

SameAt(d1, d2, k) ==
    /\ (k \in DOMAIN d1) <=> (k \in DOMAIN d2)
    /\ k \in DOMAIN d1 => d1[k] = d2[k]

SymbolFrameStep ==
    LET S == CallSymbol(ret', active_orders')
    IN  /\ \A symbol \in Symbols \ S :
              /\ orders_by_symbol'[symbol] = orders_by_symbol[symbol]
              /\ SameAt(order_books', order_books, symbol)
              /\ SameAt(market_data', market_data, symbol)
        /\ \A i \in DOMAIN active_orders :
              active_orders[i].symbol \notin S => SameAt(active_orders', active_orders, i)
        /\ IsProcess(ret') =>
              \A k \in 1..Len(ret'.made) :
                  /\ {ret'.made[k].symbol} = S
                  /\ \A i \in TradeLegs(ret'.made[k]) : {active_orders'[i].symbol} = S

\* C15: a process_order or cancel_order call on symbol S leaves every other
\* symbol's resting orders, order statuses and fills, book snapshot and
\* market data unchanged, and every trade it makes has symbol S and two legs
\* that are orders of symbol S.
CallsStayInTheirSymbol == [][SymbolFrameStep]_vars

\* A call that traded while a live order of another symbol, price-compatible
\* with the incoming order, rested on the opposite side.
TradePastOtherSymbol ==
    /\ IsProcess(ret) /\ ret.made # <<>>
    /\ \E symbol \in Symbols \ {ret.order.symbol} :
          \E i \in Range(RestingList(symbol, Opposite(ret.order.side))) :
              /\ active_orders[i].status = PENDING
              /\ CompatibleWith(ret.order, active_orders[i])

\* ------------------------------------------------------------- C16
\* The request an Order was constructed from.
RequestOf(order) ==
    [symbol |-> order.symbol, user_id |-> order.user_id, side |-> order.side,
     order_type |-> order.order_type, quantity |-> order.quantity,
     price |-> order.price]

\* The step is one whole process_order or cancel_order call of the engine,
\* the call the caller's view after the step tells of.
SerialStep ==
    \/ /\ IsProcess(ret')
       /\ RequestOf(ret'.order) \in TaskRequests
       /\ clock' = clock + 1
       /\ \E r \in {process_order_result(Order(clock + 1, clock + 1, RequestOf(ret'.order)))} :
             Install(r)
    \/ /\ IsCancel(ret')
       /\ ret'.order_id \in 1..MaxOrders /\ ret'.user_id = "user123"
       /\ clock' = clock
       /\ \E r \in {cancel_order_result(ret'.order_id, ret'.user_id)} : Install(r)

NoCallInFlight == \A task \in Tasks : ~InFlight(task)

\* No order has more quantity traded against it than it has.
NotTradedTwice ==
    \A i \in DOMAIN active_orders :
        TradedQty(trades, i) <= active_orders[i].quantity

\* C16: with process_order and cancel_order called from concurrent tasks,
\* every call takes effect in one piece: each step of the system is one whole
\* call of the serial engine and leaves no call in mid-flight, so every
\* reachable state is the outcome of the calls in some serial order, and no
\* resting quantity is traded twice.
CallsAreAtomic ==
    [][SerialStep /\ NoCallInFlight' /\ NotTradedTwice']_vars

\* Two tasks submitted orders of the same side, both price-compatible with
\* one resting order; the first call traded against it, the second did not.
TwoTasksOneRestingOrder ==
    \E t1, t2 \in DOMAIN calls, r \in DOMAIN active_orders :
        LET o1 == calls[t1].order.id
            o2 == calls[t2].order.id
        IN  /\ t1 # t2 /\ r < o1 /\ o1 < o2
            /\ {o1, o2} \subseteq DOMAIN active_orders
            /\ active_orders[o1].side = active_orders[o2].side
            /\ active_orders[r].side # active_orders[o2].side
            /\ CompatibleWith(active_orders[o2], active_orders[r])
            /\ \E k \in 1..Len(trades) : TradeLegs(trades[k]) = {r, o1}
            /\ ~\E k \in 1..Len(trades) : TradeLegs(trades[k]) = {r, o2}

\* ------------------------------------------------------------- C18
PartialCandidateStep ==
    (IsProcess(ret') /\ ret'.result = "returned") =>
        LET incoming == ret'.order
        IN  \A r \in Range(RestingList(incoming.symbol, Opposite(incoming.side))) :
                ( /\ active_orders[r].status = PARTIAL
                  /\ Remaining(active_orders[r]) > 0
                  /\ CompatibleWith(incoming, active_orders[r]) )
                => \/ Remaining(incoming) = 0
                   \/ \E k \in 1..Len(ret'.made) : r \in TradeLegs(ret'.made[k])

\* C18: a resting Partial order with remaining quantity is still a matching
\* candidate: a later price-compatible order of the other side either trades
\* against it or is filled without it.
PartialOrdersStillMatch == [][PartialCandidateStep]_vars

\* ------------------------------------------------------------- C19
\* No live resting order of the other side is price-compatible with the
\* order process_order has just returned unfilled.
NothingLeftToMatch ==
    (IsProcess(ret) /\ ret.result = "returned" /\ ret.order.status # FILLED) =>
        \A r \in Range(RestingList(ret.order.symbol, Opposite(ret.order.side))) :
            (Live(active_orders[r]) /\ Remaining(active_orders[r]) > 0)
            => ~CompatibleWith(ret.order, active_orders[r])

NoCrossedRestingLimits ==
    \A symbol \in Symbols :
        \A b \in Range(RestingList(symbol, BUY)), s \in Range(RestingList(symbol, SELL)) :
            ( /\ Live(active_orders[b]) /\ Remaining(active_orders[b]) > 0
              /\ Live(active_orders[s]) /\ Remaining(active_orders[s]) > 0
              /\ active_orders[b].order_type = LIMIT
              /\ active_orders[s].order_type = LIMIT )
            => Val(active_orders[b].price) < Val(active_orders[s].price)

\* C19: matching is maximal: when process_order returns with the accepted
\* order not Filled, no Pending or Partial resting order of the other side
\* with remaining quantity is price-compatible with it, so no two live
\* resting limit orders of a symbol cross.
MatchingIsMaximal == NothingLeftToMatch /\ NoCrossedRestingLimits

\* ------------------------------------------------------------- C20
\* C20: every order in a symbol's per-side resting collection is Pending or
\* Partial: a Filled or Cancelled order is not in it.
RestingListsHoldLiveOrders ==
    \A symbol \in Symbols, side \in OrderSide :
        \A i \in Range(RestingList(symbol, side)) : Live(active_orders[i])

\* ------------------------------------------------------------- C21
\* The prices of the live priced orders resting on one side of a symbol.
LivePrices(orders, lists, symbol, side) ==
    {Val(orders[i].price) :
        i \in {j \in Range(IF side = BUY THEN lists[symbol].buy_orders
                           ELSE lists[symbol].sell_orders) :
                  /\ Live(orders[j]) /\ Remaining(orders[j]) > 0
                  /\ Truthy(orders[j].price)}}

Highest(S) == CHOOSE x \in S : \A y \in S : y <= x
Lowest(S) == CHOOSE x \in S : \A y \in S : x <= y

\* The quote a symbol had before the call (0 when it had no market data).
QuoteBefore(symbol, field) ==
    IF symbol \in DOMAIN market_data THEN market_data[symbol][field] ELSE 0

MarketDataStep ==
    (IsProcess(ret') /\ ret'.made # <<>>) =>
        LET symbol == ret'.order.symbol
            bids == LivePrices(active_orders', orders_by_symbol', symbol, BUY)
            asks == LivePrices(active_orders', orders_by_symbol', symbol, SELL)
        IN  /\ symbol \in DOMAIN market_data'
            /\ market_data'[symbol].last_price = ret'.made[Len(ret'.made)].price
            /\ market_data'[symbol].bid =
                  IF bids # {} THEN Highest(bids) ELSE QuoteBefore(symbol, "bid")
            /\ market_data'[symbol].ask =
                  IF asks # {} THEN Lowest(asks) ELSE QuoteBefore(symbol, "ask")

\* C21: after a process_order call that made at least one trade, the symbol's
\* market data has the price of the call's last trade as last price, and as
\* best bid and best ask the highest price among the live resting bids and
\* the lowest among the live resting asks after the call's fills (a side with
\* no live order leaves its quote as it was).
MarketDataFollowsTrade == [][MarketDataStep]_vars

\* ------------------------------------------------------------- C22
QuietStep ==
    (IsCancel(ret') \/ (IsProcess(ret') /\ ret'.made = <<>>)) =>
        market_data' = market_data

\* C22: market data changes only with a trade: a process_order call that
\* makes no trade (rejected, or rested unmatched) and every cancel_order
\* call, successful or refused, leave every symbol's market data unchanged.
MarketDataOnlyByTrade == [][QuietStep]_vars

\* A successful cancel that changed the top of a book whose symbol has
\* market data.
CancelMovesBookNotQuotes ==
    /\ IsCancel(ret) /\ ret.result = TRUE
    /\ LET symbol == active_orders[ret.order_id].symbol
       IN  /\ symbol \in DOMAIN market_data
           /\ order_books[symbol].bids # <<>>
           /\ order_books[symbol].bids[1].price # market_data[symbol].bid

\* ------------------------------------------------------------- C23
\* The value (quantity * price) of the trades of the history that name order i.
RECURSIVE TradedValue(_, _)
TradedValue(history, i) ==
    IF history = <<>> THEN 0
    ELSE (IF i \in TradeLegs(Head(history))
          THEN Head(history).quantity * Head(history).price ELSE 0)
         + TradedValue(Tail(history), i)

\* C23: an order with a fill has as average_price the volume-weighted mean of
\* its trades (average_price * filled_quantity = sum of quantity * price over
\* the trades of the history that name it); an order with no fill has none.
AveragePriceIsVWAP ==
    \A i \in DOMAIN active_orders :
        LET order == active_orders[i]
        IN  IF order.filled_quantity > 0
            THEN /\ order.average_price # None
                 /\ Val(order.average_price)[1] * order.filled_quantity
                       = Val(order.average_price)[2] * TradedValue(trades, i)
            ELSE order.average_price = None

\* An order filled by two trades of different quantities at different prices.
FilledInUnequalParts ==
    \E i \in DOMAIN active_orders :
        \E k1, k2 \in 1..Len(trades) :
            /\ k1 < k2
            /\ i \in TradeLegs(trades[k1]) \cap TradeLegs(trades[k2])
            /\ trades[k1].price # trades[k2].price
            /\ trades[k1].quantity # trades[k2].quantity
            /\ active_orders[i].status = FILLED

\* ------------------------------------------------------------- C24
StrictlyOrdered(side_levels, before(_, _)) ==
    \A k \in 1..(Len(side_levels) - 1) :
        before(side_levels[k].price, side_levels[k + 1].price)

\* C24: every book snapshot has its bid levels in strictly descending price
\* order and its ask levels in strictly ascending price order (so one level
\* per price), and every level has a quantity > 0.
LevelsSortedAndPositive ==
    \A symbol \in DOMAIN order_books :
        /\ StrictlyOrdered(order_books[symbol].bids, LAMBDA p, q : p > q)
        /\ StrictlyOrdered(order_books[symbol].asks, LAMBDA p, q : p < q)
        /\ \A k \in 1..Len(order_books[symbol].bids) :
              order_books[symbol].bids[k].quantity > 0
        /\ \A k \in 1..Len(order_books[symbol].asks) :
              order_books[symbol].asks[k].quantity > 0

\* A snapshot with two bid levels, one of them summing several orders.
TwoLevelsOneAggregated ==
    \E symbol \in DOMAIN order_books :
        /\ Len(order_books[symbol].bids) = 2
        /\ \E k \in 1..2 : order_books[symbol].bids[k].quantity > MaxQty

\* ------------------------------------------------------------- C25
\* C25: a book snapshot is never crossed: when it has bids and asks, its
\* first bid price is strictly below its first ask price.
SnapshotNotCrossed ==
    \A symbol \in DOMAIN order_books :
        (order_books[symbol].bids # <<>> /\ order_books[symbol].asks # <<>>)
        => order_books[symbol].bids[1].price < order_books[symbol].asks[1].price

\* A snapshot with a bid level and an ask level.
TwoSidedSnapshot ==
    \E symbol \in DOMAIN order_books :
        order_books[symbol].bids # <<>> /\ order_books[symbol].asks # <<>>

====
